---------------------------- MODULE Spec2Model ----------------------------
(***************************************************************************)
(* cling::InputValidator (lib/MetaProcessor/InputValidator.cpp) and the    *)
(* address cache of IsMemoryValid (lib/Utils/PlatformPosix.cpp).           *)
(*                                                                         *)
(* A line is a sequence of one-character strings; the terminating NUL of   *)
(* the C string is implicit at position Len(line) + 1.  Positions are      *)
(* 1-based cursors into the line (the const char* of the source).          *)
(***************************************************************************)
EXTENDS Integers, Sequences, FiniteSets, TLC

(***************************************************************************)
(* Bounds of the model.                                                    *)
(***************************************************************************)
\* Most characters the user types between two resets, the return key of
\* every line but the last included.
MaxInput == 6
\* Longest line of the end-of-line recovery cases.
MaxRange == 5
\* Longest line of the calls followed one loop iteration at a time.
MaxLine == 4
\* Most Cache::push calls the callers make.
MaxPush == 10

(***************************************************************************)
(* Token kinds: enum cling::tok::TokenKind of MetaLexer.h.  The header is  *)
(* not among the sources; the spec fixes what validate() relies on: three  *)
(* openers at even ordinals, each closer at opener + 1, the two literal    *)
(* starters right after them, and distinct kinds for slash, asterisk, end  *)
(* of file, other punctuators and unknown characters.                      *)
(***************************************************************************)
tok_l_square == 0
tok_r_square == 1
tok_l_paren == 2
tok_r_paren == 3
tok_l_brace == 4
tok_r_brace == 5
tok_stringlit == 6
tok_charlit == 7
tok_comma == 8
tok_slash == 12
tok_hash == 17
tok_asterik == 26
tok_semicolon == 27
tok_eof == 28
tok_unknown == 29

kComplete == "kComplete"
kIncomplete == "kIncomplete"
kMismatch == "kMismatch"

\* The terminating zero byte of a line.
NUL == "NUL"

\* *p for a cursor p into the line: the character, or the terminator.
At(line, p) == IF p \in 1..Len(line) THEN line[p] ELSE NUL

Last(s) == s[Len(s)]
Front(s) == SubSeq(s, 1, Len(s) - 1)

(***************************************************************************)
(* MetaLexer (not among the sources, modelled from the spec, section 6):   *)
(* lexNext advances past characters that are no punctuator and returns the *)
(* next punctuator token, or end-of-file; a double slash hides the rest of *)
(* the line; lexQuotedLiteral advances past a literal including its        *)
(* closing quote if it is on the line, and yields end-of-file otherwise.   *)
(***************************************************************************)
LexPunctuator(c) ==
  CASE c = "[" -> tok_l_square
    [] c = "]" -> tok_r_square
    [] c = "(" -> tok_l_paren
    [] c = ")" -> tok_r_paren
    [] c = "{" -> tok_l_brace
    [] c = "}" -> tok_r_brace
    [] c = "\"" -> tok_stringlit
    [] c = "'" -> tok_charlit
    [] c = "," -> tok_comma
    [] c = "/" -> tok_slash
    [] c = "#" -> tok_hash
    [] c = "*" -> tok_asterik
    [] c = ";" -> tok_semicolon
    [] c = NUL -> tok_eof
    [] OTHER -> tok_unknown

RECURSIVE SkipToEndOfLine(_, _)
SkipToEndOfLine(line, p) ==
  IF At(line, p) = NUL THEN p ELSE SkipToEndOfLine(line, p + 1)

\* [kind, curPos]: the token and the cursor after it.
RECURSIVE LexPunctuatorAndAdvance(_, _)
LexPunctuatorAndAdvance(line, curPos) ==
  IF At(line, curPos) = "/" /\ At(line, curPos + 1) = "/"
  THEN [kind |-> tok_eof, curPos |-> SkipToEndOfLine(line, curPos)]
  ELSE LET k == LexPunctuator(At(line, curPos))
       IN IF k # tok_unknown
          THEN [kind |-> k, curPos |-> curPos + 1]
          ELSE LexPunctuatorAndAdvance(line, curPos + 1)

\* quote is the character that opened the literal.
RECURSIVE LexQuotedStringAndAdvance(_, _, _)
LexQuotedStringAndAdvance(line, curPos, quote) ==
  LET c == At(line, curPos)
  IN IF c = NUL THEN [kind |-> tok_eof, curPos |-> curPos]
     ELSE IF c = "\\"
          THEN IF At(line, curPos + 1) = NUL
               THEN [kind |-> tok_eof, curPos |-> curPos + 1]
               ELSE LexQuotedStringAndAdvance(line, curPos + 2, quote)
     ELSE IF c = quote
          THEN [kind |-> LexPunctuator(quote), curPos |-> curPos + 1]
          ELSE LexQuotedStringAndAdvance(line, curPos + 1, quote)

QuoteOf(kind) == IF kind = tok_stringlit THEN "\"" ELSE "'"

(***************************************************************************)
(* InputValidator::inBlockComment                                          *)
(***************************************************************************)
inBlockComment(stack) == \E i \in 1..Len(stack) : stack[i] = tok_slash

(***************************************************************************)
(* findNestedBlockComments.  commentTok is a char: a count 0, 1, 2 in the  *)
(* forward loop, then 0 or the code of '*' (42) or '/' (47).               *)
(***************************************************************************)
RECURSIVE FnbcBackward(_, _, _, _)
FnbcBackward(line, startPos, endPos, commentTok) ==
  IF ~(endPos > startPos) THEN 0
  ELSE LET c == At(line, endPos)
       IN IF c = "*"
          THEN IF commentTok = 42 THEN -1
               ELSE FnbcBackward(line, startPos, endPos - 1, 47)
          ELSE IF c = "/"
          THEN IF commentTok = 47 THEN 1
               ELSE FnbcBackward(line, startPos, endPos - 1, 42)
          ELSE FnbcBackward(line, startPos, endPos - 1, 0)

\* Mutant of FnbcForward: the count of slashes is not restarted by another
\* character (lines 53-54 are missing).
RECURSIVE FnbcForward_NoRestart(_, _, _, _)
FnbcForward_NoRestart(line, startPos, endPos, commentTok) ==
  IF ~(startPos < endPos) THEN 0
  ELSE IF At(line, startPos) = "/"
       THEN IF commentTok + 1 = 2
            THEN FnbcBackward(line, startPos, endPos, 2)
            ELSE FnbcForward_NoRestart(line, startPos + 1, endPos,
                                       commentTok + 1)
       ELSE FnbcForward_NoRestart(line, startPos + 1, endPos, commentTok)

RECURSIVE FnbcForward(_, _, _, _)
FnbcForward(line, startPos, endPos, commentTok) ==
  IF ~(startPos < endPos) THEN 0
  ELSE IF At(line, startPos) = "/"
       THEN IF commentTok + 1 = 2
            THEN FnbcBackward(line, startPos, endPos, 2)
            ELSE FnbcForward(line, startPos + 1, endPos, commentTok + 1)
       ELSE FnbcForward(line, startPos + 1, endPos, 0)

findNestedBlockComments(line, startPos, endPos) ==
  FnbcForward(line, startPos, endPos, 0)

(***************************************************************************)
(* unwindTokens: pops up to and including the topmost tok.  asserted       *)
(* records that one of the two assertions (the stack is empty) fired.      *)
(***************************************************************************)
\* Mutant of unwindTokens: a single pop_back instead of the unwinding loop.
unwindTokens_PopOne(queue, tok) ==
  IF queue = << >> THEN [queue |-> << >>, asserted |-> TRUE]
  ELSE [queue |-> Front(queue), asserted |-> FALSE]

\* Mutant of unwindTokens: the final pop_back of line 66 is missing, so the
\* marker itself stays on the stack.
RECURSIVE unwindTokens_KeepMarker(_, _)
unwindTokens_KeepMarker(queue, tok) ==
  IF queue = << >> THEN [queue |-> << >>, asserted |-> TRUE]
  ELSE IF Last(queue) = tok THEN [queue |-> queue, asserted |-> FALSE]
  ELSE unwindTokens_KeepMarker(Front(queue), tok)

RECURSIVE unwindTokens(_, _)
unwindTokens(queue, tok) ==
  IF queue = << >> THEN [queue |-> << >>, asserted |-> TRUE]
  ELSE IF Last(queue) = tok THEN [queue |-> Front(queue), asserted |-> FALSE]
  ELSE unwindTokens(Front(queue), tok)

(***************************************************************************)
(* InputValidator::validate, one iteration of its do-while loop at a time. *)
(* The loop state is the record st:                                        *)
(*   stack       m_ParenStack                                              *)
(*   multi       multilineComment                                          *)
(*   commentTok  the digraph cursor: tok_slash or tok_asterik              *)
(*   Res         the result so far                                         *)
(*   curPos      the cursor into the line                                  *)
(*   openStack   history: m_ParenStack when the open comment was entered   *)
(*   steps       history: one record per token processed                   *)
(***************************************************************************)

\* Lines 155-157: the six bracket kinds; closers are the odd ones.
IsBracket(kind) == kind >= tok_l_square /\ kind <= tok_r_brace
IsCloser(kind) == kind % 2 = 1
\* Line 171: the literal-opening kinds.
IsLiteral(kind) == kind >= tok_stringlit /\ kind <= tok_charlit

\* Mutant of DigraphStep: entering a comment sets the flag but pushes no
\* marker (the push_back of line 127 is missing).
DigraphStep_NoMarker(st, kind) ==
  IF kind = tok_slash
  THEN IF st.multi
       THEN LET u == unwindTokens(st.stack, tok_slash)
            IN [stack |-> u.queue, multi |-> FALSE, commentTok |-> tok_slash,
                openStack |-> st.openStack, ev |-> "close",
                asserted |-> u.asserted]
       ELSE [stack |-> st.stack, multi |-> st.multi, commentTok |-> tok_asterik,
             openStack |-> st.openStack, ev |-> "wait", asserted |-> FALSE]
  ELSE IF ~st.multi
       THEN [stack |-> st.stack, multi |-> TRUE,
             commentTok |-> st.commentTok, openStack |-> st.stack,
             ev |-> "open", asserted |-> FALSE]
       ELSE [stack |-> st.stack, multi |-> st.multi, commentTok |-> tok_slash,
             openStack |-> st.openStack, ev |-> "wait", asserted |-> FALSE]

\* Mutant of DigraphStep: the asterisk that enters a comment also counts as
\* the first character of the closing digraph (the cursor moves on to the
\* slash at line 127).
DigraphStep_ReuseAsterisk(st, kind) ==
  IF kind = tok_slash
  THEN IF st.multi
       THEN LET u == unwindTokens(st.stack, tok_slash)
            IN [stack |-> u.queue, multi |-> FALSE, commentTok |-> tok_slash,
                openStack |-> st.openStack, ev |-> "close",
                asserted |-> u.asserted]
       ELSE [stack |-> st.stack, multi |-> st.multi, commentTok |-> tok_asterik,
             openStack |-> st.openStack, ev |-> "wait", asserted |-> FALSE]
  ELSE IF ~st.multi
       THEN [stack |-> Append(st.stack, tok_slash), multi |-> TRUE,
             commentTok |-> tok_slash, openStack |-> st.stack,
             ev |-> "open", asserted |-> FALSE]
       ELSE [stack |-> st.stack, multi |-> st.multi, commentTok |-> tok_slash,
             openStack |-> st.openStack, ev |-> "wait", asserted |-> FALSE]

\* Lines 102-132: the token is the one the digraph cursor waits for.
\* ev: "wait" (first character of a digraph), "open" (comment entered),
\* "close" (comment left).
DigraphStep(st, kind) ==
  IF kind = tok_slash
  THEN IF st.multi
       THEN LET u == unwindTokens(st.stack, tok_slash)
            IN [stack |-> u.queue, multi |-> FALSE, commentTok |-> tok_slash,
                openStack |-> st.openStack, ev |-> "close",
                asserted |-> u.asserted]
       ELSE [stack |-> st.stack, multi |-> st.multi, commentTok |-> tok_asterik,
             openStack |-> st.openStack, ev |-> "wait", asserted |-> FALSE]
  ELSE IF ~st.multi
       THEN [stack |-> Append(st.stack, tok_slash), multi |-> TRUE,
             commentTok |-> st.commentTok, openStack |-> st.stack,
             ev |-> "open", asserted |-> FALSE]
       ELSE [stack |-> st.stack, multi |-> st.multi, commentTok |-> tok_slash,
             openStack |-> st.openStack, ev |-> "wait", asserted |-> FALSE]

\* Lines 137-146: end of line inside a block comment.  fnbc is the value
\* of findNestedBlockComments; badCase is the default: label of the switch.
EofRecovery(stack, line, prevStart, curPos) ==
  LET n == findNestedBlockComments(line, prevStart, curPos)
      u == unwindTokens(stack, tok_slash)
  IN IF n = -1
     THEN [stack |-> u.queue, fnbc |-> n, asserted |-> u.asserted,
           badCase |-> FALSE]
     ELSE [stack |-> stack, fnbc |-> n, asserted |-> FALSE,
           badCase |-> n \notin {0, 1}]

\* Lines 147-152: inside a comment, waiting for the closing slash.
CancelWait(commentTok, kind) ==
  IF commentTok = tok_slash /\ kind # tok_asterik
  THEN tok_asterik ELSE commentTok

\* Mutant of BracketStep: a wrong closer is a mismatch inside a block
\* comment too (the continue of line 162 is missing).
BracketStep_NoCommentSkip(stack, multi, kind) ==
  IF kind % 2 = 1
  THEN LET prev == IF stack = << >> THEN -1 ELSE Last(stack)
       IN IF prev # kind - 1
          THEN [stack |-> stack, ev |-> "mismatch"]
          ELSE [stack |-> Front(stack), ev |-> "pop"]
  ELSE [stack |-> Append(stack, kind), ev |-> "push"]

\* Lines 155-170: a bracket token.  ev: "push", "pop", "skip" (the continue
\* of line 162) or "mismatch" (lines 163-164).
BracketStep(stack, multi, kind) ==
  IF IsCloser(kind)
  THEN LET prev == IF stack = << >> THEN -1 ELSE Last(stack)
       IN IF prev # kind - 1
          THEN IF multi THEN [stack |-> stack, ev |-> "skip"]
                        ELSE [stack |-> stack, ev |-> "mismatch"]
          ELSE [stack |-> Front(stack), ev |-> "pop"]
  ELSE [stack |-> Append(stack, kind), ev |-> "push"]

\* Mutant of LiteralStep: the literal's kind is pushed as a nesting marker
\* (what the join rule of lines 182-183 looks for).
LiteralStep_PushMarker(stack, line, curPos, kind) ==
  LET q == LexQuotedStringAndAdvance(line, curPos, QuoteOf(kind))
  IN [stack |-> IF q.kind = tok_eof THEN Append(stack, kind) ELSE stack,
      tokKind |-> q.kind, curPos |-> q.curPos]

\* Lines 171-173: a literal-opening token; the lexer scans past the literal
\* and Tok becomes what that scan returns.
LiteralStep(stack, line, curPos, kind) ==
  LET q == LexQuotedStringAndAdvance(line, curPos, QuoteOf(kind))
  IN [stack |-> stack, tokKind |-> q.kind, curPos |-> q.curPos]

\* The step record kept for every token: its kind, the cursor after the
\* step (the token itself is the character before lexEnd, unless it is
\* end-of-file), the stack and the locals before the step, the stack after
\* it, and what the step did.  fnbc is 2 when the recovery did not run.
StepRec(st, kind, lexEnd, next, stack, ev, asserted, fnbc) ==
  [kind |-> kind, at |-> lexEnd - 1, next |-> next,
   before |-> st.stack, after |-> stack, multi |-> st.multi,
   cursor |-> st.commentTok, ev |-> ev, atOpen |-> st.openStack,
   asserted |-> asserted, fnbc |-> fnbc]

\* The loop state after an iteration.  tokKind is Tok's kind when the loop
\* condition of line 176 is evaluated; brk says the iteration left by break.
Iterated(st, stack, multi, cTok, oStack, Res, curPos, tokKind, brk, rec) ==
  [stack |-> stack, multi |-> multi, commentTok |-> cTok,
   Res |-> Res, curPos |-> curPos, openStack |-> oStack,
   tokKind |-> tokKind, brk |-> brk, steps |-> Append(st.steps, rec)]

\* Lines 102-132 with the outcome d of DigraphStep.
DigraphIter(st, lx, d) ==
  Iterated(st, d.stack, d.multi, d.commentTok, d.openStack, st.Res,
           lx.curPos, lx.kind, FALSE,
           StepRec(st, lx.kind, lx.curPos, lx.curPos, d.stack, d.ev,
                   d.asserted, 2))

\* Lines 137-146 with the outcome r of EofRecovery; the iteration breaks.
EofIter(st, lx, r) ==
  Iterated(st, r.stack, st.multi, st.commentTok, st.openStack, st.Res,
           lx.curPos, lx.kind, TRUE,
           StepRec(st, lx.kind, lx.curPos, lx.curPos, r.stack,
                   IF r.badCase THEN "badcase" ELSE "recover",
                   r.asserted, r.fnbc))

\* Lines 155-170 with the outcome b of BracketStep; a mismatch breaks.
BracketIter(st, lx, ct, b) ==
  Iterated(st, b.stack, st.multi, ct, st.openStack,
           IF b.ev = "mismatch" THEN kMismatch ELSE st.Res,
           lx.curPos, lx.kind, b.ev = "mismatch",
           StepRec(st, lx.kind, lx.curPos, lx.curPos, b.stack, b.ev,
                   FALSE, 2))

\* Lines 171-173 with the outcome q of LiteralStep.
LiteralIter(st, lx, ct, q) ==
  Iterated(st, q.stack, st.multi, ct, st.openStack, st.Res,
           q.curPos, q.tokKind, FALSE,
           StepRec(st, lx.kind, lx.curPos, q.curPos, q.stack, "literal",
                   FALSE, 2))

\* Lines 155-174: a token that is not the awaited digraph character; ct is
\* the digraph cursor after lines 136-153.
PlainIter(line, st, lx, ct) ==
  IF IsBracket(lx.kind)
  THEN BracketIter(st, lx, ct, BracketStep(st.stack, st.multi, lx.kind))
  ELSE IF IsLiteral(lx.kind)
  THEN LiteralIter(st, lx, ct,
                   LiteralStep(st.stack, line, lx.curPos, lx.kind))
  ELSE Iterated(st, st.stack, st.multi, ct, st.openStack, st.Res,
                lx.curPos, lx.kind, FALSE,
                StepRec(st, lx.kind, lx.curPos, lx.curPos, st.stack,
                        "other", FALSE, 2))

\* Lines 102-174: the iteration for the token lx lexed at line 80.
Dispatch(line, st, lx) ==
  IF lx.kind = st.commentTok
  THEN DigraphIter(st, lx, DigraphStep(st, lx.kind))
  ELSE IF st.multi /\ lx.kind = tok_eof
  THEN EofIter(st, lx, EofRecovery(st.stack, line, st.curPos, lx.curPos))
  ELSE PlainIter(line, st, lx,
                 IF st.multi THEN CancelWait(st.commentTok, lx.kind)
                 ELSE st.commentTok)

\* Lines 79-175: one iteration; prevStart is st.curPos.
TokenStep(line, st) ==
  Dispatch(line, st, LexPunctuatorAndAdvance(line, st.curPos))

\* Lines 78-176: the do-while loop.
RECURSIVE ScanLine(_, _)
LoopOn(line, nx) ==
  IF nx.brk \/ nx.tokKind = tok_eof THEN nx ELSE ScanLine(line, nx)
ScanLine(line, st) == LoopOn(line, TokenStep(line, st))

\* Mutant of StartScan: the scan starts from an empty stack instead of the
\* one the previous call left.
StartScan_ForgetStack(stack, openStack) ==
  [stack |-> << >>, multi |-> FALSE, commentTok |-> tok_slash,
   Res |-> kComplete, curPos |-> 1, openStack |-> openStack,
   tokKind |-> tok_unknown, brk |-> FALSE, steps |-> << >>]

\* Mutant of StartScan: the flag and the cursor start as outside a comment
\* whatever the stack holds (lines 75-76 do not consult inBlockComment()).
StartScan_NotInComment(stack, openStack) ==
  [stack |-> stack, multi |-> FALSE, commentTok |-> tok_slash,
   Res |-> kComplete, curPos |-> 1, openStack |-> openStack,
   tokKind |-> tok_unknown, brk |-> FALSE, steps |-> << >>]

\* Mutant of StartScan: the cursor starts as if the first character of the
\* digraph had been the last token of the line before.
StartScan_PendingDigraph(stack, openStack) ==
  [stack |-> stack, multi |-> inBlockComment(stack),
   commentTok |-> IF inBlockComment(stack) THEN tok_slash ELSE tok_asterik,
   Res |-> kComplete, curPos |-> 1, openStack |-> openStack,
   tokKind |-> tok_unknown, brk |-> FALSE, steps |-> << >>]

\* Lines 71-76: the locals before the loop.
StartScan(stack, openStack) ==
  [stack |-> stack, multi |-> inBlockComment(stack),
   commentTok |-> IF inBlockComment(stack) THEN tok_asterik ELSE tok_slash,
   Res |-> kComplete, curPos |-> 1, openStack |-> openStack,
   tokKind |-> tok_unknown, brk |-> FALSE, steps |-> << >>]

\* Mutant of FinalResult: the check of the stack after the loop is missing.
FinalResult_NoStackCheck(stack, Res) == Res

\* Lines 178-179.
FinalResult(stack, Res) ==
  IF stack # << >> /\ Res # kMismatch THEN kIncomplete ELSE Res

\* Lines 181-191: the line joins the logical buffer.
AppendLine(input, stack, line) ==
  IF input # << >>
  THEN IF stack # << >> /\ (Last(stack) = tok_stringlit
                            \/ Last(stack) = tok_charlit)
       THEN input \o <<"\\", "n">> \o line
       ELSE input \o <<"\n">> \o line
  ELSE line

\* InputValidator::validate as a function of the fields and the line.
Returned(input, line, fin) ==
  [stack |-> fin.stack,
   input |-> AppendLine(input, fin.stack, line),
   Res |-> FinalResult(fin.stack, fin.Res),
   openStack |-> fin.openStack,
   steps |-> fin.steps,
   openLit |-> fin.tokKind = tok_eof /\ fin.steps # << >>
                 /\ Last(fin.steps).ev = "literal"]
validate(stack, input, openStack, line) ==
  Returned(input, line, ScanLine(line, StartScan(stack, openStack)))

\* Mutant of reset: only the logical buffer is cleared.
reset_KeepStack(stack, input) == [stack |-> stack, input |-> << >>]

\* InputValidator::reset, lines 196-199.
reset(stack, input) == [stack |-> << >>, input |-> << >>]

(***************************************************************************)
(* The state machine: one InputValidator driven by the interactive loop.   *)
(***************************************************************************)
VARIABLES
  m_ParenStack,  \* std::deque<int>, back of the deque last
  m_Input,       \* std::string, the logical buffer
  result,        \* what the last validate() returned; "none" before any
  op,            \* the last operation: "new", "validate" or "reset"
  line,          \* the argument of the last validate()
  pre,           \* m_ParenStack when the last validate() was entered
  preInput,      \* m_Input when the last validate() was entered
  steps,         \* the token steps of the last validate()
  openStack,     \* m_ParenStack when the open block comment was entered
  openLit,       \* the last validate() ended inside an unterminated literal
  prevOpenLit,   \* openLit when the last validate() was entered
  fresh,         \* a newly constructed validator fed the lines since reset
  afterReset,    \* "no", or what the reset() before the last call erased:
                 \* "dirty" (a block comment or a Mismatch) or "clean"
  typed,         \* the lines validate() was called with since the reset
  charset,       \* the characters this session types
  eolCase,       \* one end of line inside a block comment, on its own: the
                 \* line, the range handed to findNestedBlockComments, the
                 \* stack, and the outcome once lines 137-146 have run
  lines,         \* Cache::lines, slots 0..7
  mostRecent,    \* Cache::mostRecent
  thr,           \* per thread: where it is in IsMemoryValid / Cache::push,
                 \* its P and acquiredVal, what IsMemoryValid returned last
                 \* and the number of its reservation
  reserved,      \* history: the pushes in the order their compare-exchange
                 \* succeeded: address, slot, whether line 59 has run
  run            \* one validate() call, one loop iteration at a time: the
                 \* line, the loop state, the position in the code and the
                 \* locals of findNestedBlockComments

vars == <<m_ParenStack, m_Input, result, op, line, pre, preInput, steps,
          openStack, openLit, prevOpenLit, fresh, afterReset, typed,
          charset, eolCase, run, lines, mostRecent, thr, reserved>>

\* The sessions explored: each types lines over one small set of characters.
Charsets ==
  { {"/", "*", "(", ")"},
    {"(", "[", "]"},
    {"{", "}", ";"},
    {"/", "*", "a"},
    {"\"", "'", ")"} }

LinesOver(cs, n) == UNION {[1..k -> cs] : k \in 0..n}

\* A newly constructed validator: both fields empty.
Constructed == [stack |-> << >>, input |-> << >>, Res |-> "none",
                openStack |-> << >>]

\* No end-of-line case under study.
NoEolCase ==
  [line |-> << >>, startPos |-> 1, endPos |-> 1, stack |-> << >>,
   done |-> FALSE, fnbc |-> 2, after |-> << >>, asserted |-> FALSE]

\* No call followed iteration by iteration.
NoRun ==
  [line |-> << >>, st |-> StartScan(<< >>, << >>), pc |-> "idle",
   startPos |-> 0, endPos |-> 0, cTok |-> 0, lexEnd |-> 0]

\* The cache of PlatformPosix.cpp: std::array<const void*, 8> lines of a
\* function-local static, hence zero-initialised, and mostRecent = {0}.
CacheSize == 8
NullPtr == 0
Threads == {"t1", "t2"}
NotCalled ==
  [pc |-> "idle", P |-> NullPtr, acquiredVal |-> 0, ret |-> "none", idx |-> 0]
cacheVars == <<lines, mostRecent, thr, reserved>>
CacheConstructed ==
  /\ lines = [s \in 0..(CacheSize - 1) |-> NullPtr]
  /\ mostRecent = 0
  /\ thr = [t \in Threads |-> NotCalled]
  /\ reserved = << >>

Init ==
  /\ m_ParenStack = << >>
  /\ m_Input = << >>
  /\ result = "none"
  /\ op = "new"
  /\ line = << >>
  /\ pre = << >>
  /\ preInput = << >>
  /\ steps = << >>
  /\ openStack = << >>
  /\ openLit = FALSE
  /\ prevOpenLit = FALSE
  /\ fresh = Constructed
  /\ afterReset = "no"
  /\ typed = << >>
  /\ charset \in Charsets
  /\ eolCase = NoEolCase
  /\ run = NoRun
  /\ CacheConstructed

\* What the user typed for the lines ls[1..n]: the characters of every
\* line and the return key that ends it.
RECURSIVE Keystrokes(_, _)
Keystrokes(ls, n) ==
  IF n = 0 THEN 0 ELSE Keystrokes(ls, n - 1) + Len(ls[n]) + 1

\* The characters the user may still type on the next line.
Room == MaxInput - Keystrokes(typed, Len(typed))

\* validate(l) on the validator, with v what it leaves and returns, and on
\* the newly constructed one, with f what that one leaves and returns.
Called(l, v, f) ==
  /\ m_ParenStack' = v.stack
  /\ m_Input' = v.input
  /\ result' = v.Res
  /\ op' = "validate"
  /\ line' = l
  /\ pre' = m_ParenStack
  /\ preInput' = m_Input
  /\ steps' = v.steps
  /\ openStack' = v.openStack
  /\ openLit' = v.openLit
  /\ prevOpenLit' = openLit
  /\ fresh' = [stack |-> f.stack, input |-> f.input, Res |-> f.Res,
               openStack |-> f.openStack]
  /\ afterReset' = IF op = "reset" THEN afterReset ELSE "no"
  /\ typed' = Append(typed, l)
  /\ UNCHANGED <<charset, eolCase, run, cacheVars>>

Validate(l) ==
  Called(l, validate(m_ParenStack, m_Input, openStack, l),
            validate(fresh.stack, fresh.input, fresh.openStack, l))

Reset ==
  /\ op # "reset"
  /\ m_ParenStack' = reset(m_ParenStack, m_Input).stack
  /\ m_Input' = reset(m_ParenStack, m_Input).input
  /\ result' = "none"
  /\ op' = "reset"
  /\ line' = << >>
  /\ pre' = << >>
  /\ preInput' = << >>
  /\ steps' = << >>
  /\ openStack' = << >>
  /\ openLit' = FALSE
  /\ prevOpenLit' = FALSE
  /\ fresh' = Constructed
  /\ afterReset' = IF inBlockComment(m_ParenStack) \/ result = kMismatch
                   THEN "dirty" ELSE "clean"
  /\ typed' = << >>
  /\ UNCHANGED <<charset, eolCase, run, cacheVars>>

Next ==
  \/ \E l \in LinesOver(charset, Room) : Validate(l)
  \/ Reset

Spec == Init /\ [][Next]_vars

(***************************************************************************)
(* The end-of-line recovery on its own: lines 137-146 applied to a stack   *)
(* that holds the comment marker and to a range of a line; the range ends  *)
(* at or before the terminator, as the cursor of validate() does when the  *)
(* lexer meets a double slash.                                             *)
(***************************************************************************)
RangeChars == {"/", "*", "a"}
CommentStacks ==
  { <<tok_slash>>, <<tok_l_paren, tok_slash>>, <<tok_slash, tok_l_brace>>,
    <<tok_l_square, tok_slash, tok_l_paren>> }

ValidatorIdle ==
  /\ m_ParenStack = << >>
  /\ m_Input = << >>
  /\ result = "none"
  /\ op = "new"
  /\ line = << >>
  /\ pre = << >>
  /\ preInput = << >>
  /\ steps = << >>
  /\ openStack = << >>
  /\ openLit = FALSE
  /\ prevOpenLit = FALSE
  /\ fresh = Constructed
  /\ afterReset = "no"
  /\ typed = << >>
  /\ charset = RangeChars

validatorVars ==
  <<m_ParenStack, m_Input, result, op, line, pre, preInput, steps,
    openStack, openLit, prevOpenLit, fresh, afterReset, typed, charset>>

InitEol ==
  /\ ValidatorIdle
  /\ run = NoRun
  /\ CacheConstructed
  /\ \E l \in LinesOver(RangeChars, MaxRange) :
       \E s \in 1..(Len(l) + 1) : \E e \in s..(Len(l) + 1) :
         \E stk \in CommentStacks :
           eolCase = [line |-> l, startPos |-> s, endPos |-> e,
                      stack |-> stk, done |-> FALSE, fnbc |-> 2,
                      after |-> << >>, asserted |-> FALSE]

\* Lines 137-146 on the case, with r the outcome of EofRecovery.
Recovered(r) ==
  /\ ~eolCase.done
  /\ eolCase' = [eolCase EXCEPT !.done = TRUE, !.fnbc = r.fnbc,
                                !.after = r.stack,
                                !.asserted = r.asserted \/ r.badCase]
  /\ UNCHANGED <<validatorVars, run, cacheVars>>

Recover ==
  Recovered(EofRecovery(eolCase.stack, eolCase.line, eolCase.startPos,
                        eolCase.endPos))

NextEol == Recover

SpecEol == InitEol /\ [][NextEol]_vars

(***************************************************************************)
(* One validate() call followed one loop iteration at a time: the do-while *)
(* loop of lines 78-176 and, at the end of a line inside a block comment,  *)
(* the two loops of findNestedBlockComments (lines 28-57).  pc is "loop"   *)
(* at the top of the do-while body, "fwd" at the test of line 28, "bwd" at *)
(* the test of line 31, "done" behind line 176.                            *)
(***************************************************************************)
LoopChars == {"/", "*", "(", ")"}
\* Stacks earlier lines leave: (, /*, (/* and /*( .
StartStacks ==
  { << >>, <<tok_l_paren>>, <<tok_slash>>, <<tok_l_paren, tok_slash>>,
    <<tok_slash, tok_l_paren>> }

InitLoop ==
  /\ ValidatorIdle
  /\ eolCase = NoEolCase
  /\ CacheConstructed
  /\ \E l \in LinesOver(LoopChars, MaxLine) : \E stk \in StartStacks :
       run = [line |-> l, st |-> StartScan(stk, << >>), pc |-> "loop",
              startPos |-> 0, endPos |-> 0, cTok |-> 0, lexEnd |-> 0]

\* Lines 138-143: the switch on the value n of findNestedBlockComments.
Switched(stack, n) ==
  IF n = -1
  THEN [stack |-> unwindTokens(stack, tok_slash).queue, fnbc |-> n,
        asserted |-> unwindTokens(stack, tok_slash).asserted,
        badCase |-> FALSE]
  ELSE [stack |-> stack, fnbc |-> n, asserted |-> FALSE,
        badCase |-> n \notin {0, 1}]

\* Line 176 with the loop state nx the iteration left.
Looped(nx) ==
  run' = [run EXCEPT !.st = nx,
                     !.pc = IF nx.brk \/ nx.tokKind = tok_eof
                            THEN "done" ELSE "loop"]

\* Lines 79-175 for the token lx: the call of line 138 is entered, or the
\* iteration runs to the loop condition.
Lexed(lx) ==
  IF lx.kind # run.st.commentTok /\ run.st.multi /\ lx.kind = tok_eof
  THEN run' = [run EXCEPT !.pc = "fwd", !.startPos = run.st.curPos,
                          !.endPos = lx.curPos, !.cTok = 0,
                          !.lexEnd = lx.curPos]
  ELSE Looped(Dispatch(run.line, run.st, lx))

LoopStep ==
  /\ run.pc = "loop"
  /\ Lexed(LexPunctuatorAndAdvance(run.line, run.st.curPos))
  /\ UNCHANGED <<validatorVars, eolCase, cacheVars>>

\* findNestedBlockComments returns n: lines 138-145, then the break.
Return(n) ==
  run' = [run EXCEPT
            !.st = EofIter(run.st, [kind |-> tok_eof, curPos |-> run.lexEnd],
                           Switched(run.st.stack, n)),
            !.pc = "done"]

\* Mutant of ForwardStep: the cursor is not advanced (line 55 is missing).
ForwardStep_NoAdvance ==
  /\ run.pc = "fwd"
  /\ IF ~(run.startPos < run.endPos) THEN Return(0)
     ELSE IF At(run.line, run.startPos) = "/"
     THEN IF run.cTok + 1 = 2
          THEN run' = [run EXCEPT !.pc = "bwd", !.cTok = 2]
          ELSE run' = [run EXCEPT !.cTok = run.cTok + 1]
     ELSE run' = [run EXCEPT !.cTok = 0]
  /\ UNCHANGED <<validatorVars, eolCase, cacheVars>>

\* Lines 28-30 and 53-57: one test and iteration of the forward loop.
ForwardStep ==
  /\ run.pc = "fwd"
  /\ IF ~(run.startPos < run.endPos) THEN Return(0)
     ELSE IF At(run.line, run.startPos) = "/"
     THEN IF run.cTok + 1 = 2
          THEN run' = [run EXCEPT !.pc = "bwd", !.cTok = 2]
          ELSE run' = [run EXCEPT !.startPos = run.startPos + 1,
                                  !.cTok = run.cTok + 1]
     ELSE run' = [run EXCEPT !.startPos = run.startPos + 1, !.cTok = 0]
  /\ UNCHANGED <<validatorVars, eolCase, cacheVars>>

\* Lines 31-51: one test and iteration of the backward loop.
BackwardStep ==
  /\ run.pc = "bwd"
  /\ IF ~(run.endPos > run.startPos) THEN Return(0)
     ELSE IF At(run.line, run.endPos) = "*"
     THEN IF run.cTok = 42 THEN Return(-1)
          ELSE run' = [run EXCEPT !.endPos = run.endPos - 1, !.cTok = 47]
     ELSE IF At(run.line, run.endPos) = "/"
     THEN IF run.cTok = 47 THEN Return(1)
          ELSE run' = [run EXCEPT !.endPos = run.endPos - 1, !.cTok = 42]
     ELSE run' = [run EXCEPT !.endPos = run.endPos - 1, !.cTok = 0]
  /\ UNCHANGED <<validatorVars, eolCase, cacheVars>>

NextLoop == LoopStep \/ ForwardStep \/ BackwardStep

\* The call is one sequential thread: it keeps running while it can.
SpecLoop == InitLoop /\ [][NextLoop]_vars /\ WF_vars(NextLoop)

(***************************************************************************)
(* The address cache of IsMemoryValid (PlatformPosix.cpp).  Addresses are  *)
(* integers: 0 is the null pointer, a negative one is unmapped, a positive *)
(* one is readable.  Cache::push runs one shared-memory access at a time:  *)
(* pc is "cas" before the compare-exchange of line 56, "reload" before the *)
(* load of line 57, "store" before the write of line 59.                   *)
(***************************************************************************)
\* Line 45-47: Cache::contains.
contains(P) == \E s \in 0..(CacheSize - 1) : lines[s] = P

\* Line 90: write() reads one byte at P; it fails on an address that is
\* not readable.
Readable(P) == P > NullPtr

\* The next address no push was called with yet.
CalledWith == {thr[t].P : t \in Threads} \cup {reserved[k].addr : k \in 1..Len(reserved)}
FreshAddr == 1 + CHOOSE m \in CalledWith \cup {NullPtr} :
                   \A a \in CalledWith \cup {NullPtr} : a <= m

\* Lines 54-55: push(P) is entered and acquiredVal = mostRecent is loaded.
EnterPush(t, P) ==
  thr' = [thr EXCEPT ![t] = [pc |-> "cas", P |-> P,
                             acquiredVal |-> mostRecent, ret |-> "none",
                             idx |-> 0]]

\* Lines 83-96 up to the first access of push: IsMemoryValid(P) returns
\* true on a cache hit, false on an unreadable address, and pushes
\* otherwise.
IsMemoryValid(t, P) ==
  /\ thr[t].pc = "idle"
  /\ IF contains(P)
     THEN thr' = [thr EXCEPT ![t] = [NotCalled EXCEPT !.P = P, !.ret = "true"]]
     ELSE IF ~Readable(P)
     THEN thr' = [thr EXCEPT ![t] = [NotCalled EXCEPT !.P = P, !.ret = "false"]]
     ELSE Len(reserved) < MaxPush /\ EnterPush(t, P)
  /\ UNCHANGED <<lines, mostRecent, reserved>>
  /\ UNCHANGED <<validatorVars, eolCase, run>>

\* Lines 54-55: a thread calls Cache::push with an address of its own.
BeginPush(t) ==
  /\ thr[t].pc = "idle"
  /\ FreshAddr <= MaxPush
  /\ EnterPush(t, FreshAddr)
  /\ UNCHANGED <<lines, mostRecent, reserved>>
  /\ UNCHANGED <<validatorVars, eolCase, run>>

\* Mutant of Cas: the slot index is advanced without wrapping around (the
\* % lines.size() of line 56 is missing).
Cas_NoWrap(t) ==
  /\ thr[t].pc = "cas"
  /\ \/ /\ mostRecent = thr[t].acquiredVal
        /\ mostRecent' = thr[t].acquiredVal + 1
        /\ reserved' = Append(reserved, [addr |-> thr[t].P,
                                         slot |-> thr[t].acquiredVal,
                                         stored |-> FALSE])
        /\ thr' = [thr EXCEPT ![t].pc = "store",
                              ![t].idx = Len(reserved) + 1]
     \/ /\ thr' = [thr EXCEPT ![t].pc = "reload",
                              ![t].acquiredVal = mostRecent]
        /\ UNCHANGED <<mostRecent, reserved>>
  /\ UNCHANGED lines
  /\ UNCHANGED <<validatorVars, eolCase, run>>

\* Mutant of Cas: the index is advanced by a plain store of the value read
\* earlier plus one, without comparing it with the current one.
Cas_NoCompare(t) ==
  /\ thr[t].pc = "cas"
  /\ mostRecent' = (thr[t].acquiredVal + 1) % CacheSize
  /\ reserved' = Append(reserved, [addr |-> thr[t].P,
                                   slot |-> thr[t].acquiredVal,
                                   stored |-> FALSE])
  /\ thr' = [thr EXCEPT ![t].pc = "store", ![t].idx = Len(reserved) + 1]
  /\ UNCHANGED lines
  /\ UNCHANGED <<validatorVars, eolCase, run>>

\* Line 56: mostRecent.compare_exchange_weak(acquiredVal, (acquiredVal+1) %
\* lines.size()).  It succeeds only when mostRecent equals acquiredVal, and
\* reserves slot acquiredVal; it fails when they differ, and a weak
\* compare-exchange may also fail when they are equal; on failure
\* acquiredVal receives the current value.
Cas(t) ==
  /\ thr[t].pc = "cas"
  /\ \/ /\ mostRecent = thr[t].acquiredVal
        /\ mostRecent' = (thr[t].acquiredVal + 1) % CacheSize
        /\ reserved' = Append(reserved, [addr |-> thr[t].P,
                                         slot |-> thr[t].acquiredVal,
                                         stored |-> FALSE])
        /\ thr' = [thr EXCEPT ![t].pc = "store",
                              ![t].idx = Len(reserved) + 1]
     \/ /\ thr' = [thr EXCEPT ![t].pc = "reload",
                              ![t].acquiredVal = mostRecent]
        /\ UNCHANGED <<mostRecent, reserved>>
  /\ UNCHANGED lines
  /\ UNCHANGED <<validatorVars, eolCase, run>>

\* Line 57: acquiredVal = mostRecent, then the compare-exchange again.
Reload(t) ==
  /\ thr[t].pc = "reload"
  /\ thr' = [thr EXCEPT ![t].pc = "cas", ![t].acquiredVal = mostRecent]
  /\ UNCHANGED <<lines, mostRecent, reserved>>
  /\ UNCHANGED <<validatorVars, eolCase, run>>

\* Line 59: lines[acquiredVal] = P; push returns (and IsMemoryValid
\* returns true, line 95).
Store(t) ==
  /\ thr[t].pc = "store"
  /\ lines' = [lines EXCEPT ![thr[t].acquiredVal] = thr[t].P]
  /\ reserved' = [reserved EXCEPT ![thr[t].idx].stored = TRUE]
  /\ thr' = [thr EXCEPT ![t].pc = "idle", ![t].ret = "true"]
  /\ UNCHANGED mostRecent
  /\ UNCHANGED <<validatorVars, eolCase, run>>

InitCache ==
  /\ ValidatorIdle
  /\ eolCase = NoEolCase
  /\ run = NoRun
  /\ CacheConstructed

\* One thread asks about the null pointer, an unmapped address, an address
\* it asked about before or the next new one.
Asked == {NullPtr - 1, NullPtr, FreshAddr} \cup CalledWith
NextSingle ==
  \/ \E P \in Asked : IsMemoryValid("t1", P)
  \/ Cas("t1")
  \/ Reload("t1")
  \/ Store("t1")

SpecSingle == InitCache /\ [][NextSingle]_vars

\* The threads push concurrently, each call with an address of its own.
NextPush ==
  \E t \in Threads : BeginPush(t) \/ Cas(t) \/ Reload(t) \/ Store(t)

SpecPush == InitCache /\ [][NextPush]_vars

(***************************************************************************)
(* Vocabulary of the properties, defined apart from the code above.        *)
(***************************************************************************)
Openers == {tok_l_square, tok_l_paren, tok_l_brace}
Closers == {tok_r_square, tok_r_paren, tok_r_brace}
OpenerOf(kind) ==
  CASE kind = tok_r_square -> tok_l_square
    [] kind = tok_r_paren -> tok_l_paren
    [] kind = tok_r_brace -> tok_l_brace
CloserChar(kind) ==
  CASE kind = tok_l_square -> "]"
    [] kind = tok_l_paren -> ")"
    [] kind = tok_l_brace -> "}"

Validated == op = "validate"
StepIx == 1..Len(steps)

\* A closing bracket token met outside any block comment whose opener is
\* not on top of the stack.
MismatchAt(i) ==
  /\ steps[i].kind \in Closers
  /\ ~inBlockComment(steps[i].before)
  /\ \/ steps[i].before = << >>
     \/ Last(steps[i].before) # OpenerOf(steps[i].kind)
MismatchDetected == \E i \in StepIx : MismatchAt(i)

\* The step entered a block comment / left one (by the digraph or by the
\* end-of-line recovery).
OpenedAt(i) == steps[i].ev = "open"
ClosedAt(i) ==
  \/ steps[i].ev = "close"
  \/ steps[i].ev = "recover" /\ steps[i].fnbc = -1

\* C1: the result of every validate() agrees with the stack it leaves:
\* Complete only with an empty stack, Incomplete only with a non-empty one,
\* and without a mismatch on the line the result is Incomplete exactly when
\* the stack is non-empty and Complete exactly when it is empty.
C1_ResultAgreesWithStack ==
  Validated =>
    /\ result \in {kComplete, kIncomplete, kMismatch}
    /\ (result = kComplete => m_ParenStack = << >>)
    /\ (result = kIncomplete => m_ParenStack # << >>)
    /\ (~MismatchDetected =>
          /\ (result = kIncomplete <=> m_ParenStack # << >>)
          /\ (result = kComplete <=> m_ParenStack = << >>))

\* A second or later call that leaves a non-empty stack without a mismatch.
C1_Witness ==
  /\ Validated /\ preInput # << >> /\ pre # << >>
  /\ ~MismatchDetected
  /\ Len(m_ParenStack) >= 2 /\ result = kIncomplete

\* C2: Mismatch is returned exactly when a closing bracket token is met
\* outside any block comment with the stack empty or topped by another
\* opener; that token is the last one processed and the stack stays as it
\* was before it; a closing bracket met inside a block comment is no
\* mismatch.
C2_MismatchExactly ==
  Validated =>
    /\ (result = kMismatch <=> MismatchDetected)
    /\ \A i \in StepIx :
         MismatchAt(i) =>
           /\ i = Len(steps)
           /\ steps[i].after = steps[i].before
           /\ m_ParenStack = steps[i].before
    /\ \A i \in StepIx :
         (steps[i].kind \in Closers /\ inBlockComment(steps[i].before)) =>
           /\ steps[i].ev # "mismatch"
           /\ (i = Len(steps) => result # kMismatch)

\* A wrong closer with openers on the stack and more of the line after it.
C2_Witness ==
  /\ Validated /\ result = kMismatch
  /\ Len(steps) >= 2 /\ Len(m_ParenStack) >= 1
  /\ Last(steps).at < Len(line)

\* The brackets of a line are balanced and properly nested (every other
\* character is ignored).
MatchingPair(o, c) ==
  \/ o = "(" /\ c = ")"
  \/ o = "[" /\ c = "]"
  \/ o = "{" /\ c = "}"
RECURSIVE BalancedFrom(_, _, _)
BalancedFrom(l, i, open) ==
  IF i > Len(l) THEN open = << >>
  ELSE IF l[i] \in {"(", "[", "{"}
       THEN BalancedFrom(l, i + 1, Append(open, l[i]))
  ELSE IF l[i] \in {")", "]", "}"}
       THEN /\ open # << >>
            /\ MatchingPair(Last(open), l[i])
            /\ BalancedFrom(l, i + 1, Front(open))
  ELSE BalancedFrom(l, i + 1, open)
Balanced(l) == BalancedFrom(l, 1, << >>)

\* The text of the line holds no comment delimiter and no quote.
NoCommentText(l) ==
  \A i \in 1..(Len(l) - 1) :
    ~(l[i] = "/" /\ l[i + 1] \in {"/", "*"}) /\ ~(l[i] = "*" /\ l[i + 1] = "/")
NoQuotes(l) == \A i \in 1..Len(l) : l[i] \notin {"\"", "'"}

\* C3 (as claimed): on a fresh or reset validator, a single line with
\* balanced, properly nested brackets, no comments and no quoted literals
\* is Complete and leaves the stack empty.
C3_BalancedLineCompletes ==
  (Validated /\ pre = << >> /\ preInput = << >>
     /\ Balanced(line) /\ NoCommentText(line) /\ NoQuotes(line)) =>
    (result = kComplete /\ m_ParenStack = << >>)

HasOpener(stack) == \E i \in 1..Len(stack) : stack[i] \in Openers

\* The closers of the openers on the stack, innermost first.
ClosersFor(stack) ==
  [i \in 1..Len(stack) |-> CloserChar(stack[Len(stack) + 1 - i])]

\* The line closes, innermost first, exactly the brackets that were open.
ClosesAll ==
  /\ pre # << >> /\ ~inBlockComment(pre)
  /\ line = ClosersFor(pre)

\* C4 (as claimed): a call that leaves openers unmatched returns Incomplete,
\* on the line that opened them and on every following line that does not
\* close them all, and the line with the matching closers in reverse order
\* returns Complete with an empty stack.
C4_OpenersGiveIncomplete ==
  Validated =>
    /\ (HasOpener(m_ParenStack) => result = kIncomplete)
    /\ (ClosesAll => result = kComplete /\ m_ParenStack = << >>)

\* C4 (amended): the scan of every call starts from the stack the previous
\* call left; a call that leaves openers unmatched returns Incomplete unless
\* it met a mismatching closer, and then it returns Mismatch; with no block
\* comment open, the line of the matching closers in reverse order of
\* opening returns Complete with an empty stack.
C4_NestingPersists ==
  Validated =>
    /\ (steps # << >> => steps[1].before = pre)
    /\ ((HasOpener(m_ParenStack) /\ ~MismatchDetected) => result = kIncomplete)
    /\ ((HasOpener(m_ParenStack) /\ MismatchDetected) => result = kMismatch)
    /\ (ClosesAll => result = kComplete /\ m_ParenStack = << >>)

\* Two nested openers left by an earlier line are closed by a later one.
C4_Witness ==
  /\ Validated /\ preInput # << >> /\ Len(pre) >= 2 /\ ClosesAll
  /\ result = kComplete

\* The steps of the last call that entered or left a block comment.
CommentEvents == {i \in StepIx : OpenedAt(i) \/ ClosedAt(i)}
LastCommentEvent == CHOOSE i \in CommentEvents : \A j \in CommentEvents : j <= i
EndsOpen == CommentEvents # {} /\ OpenedAt(LastCommentEvent)
EndsClosed == CommentEvents # {} /\ ClosedAt(LastCommentEvent)

\* The text of the line holds the closing digraph behind a double slash.
ClosedBehindDoubleSlash(l) ==
  \E i \in 1..(Len(l) - 1) : \E j \in (i + 2)..(Len(l) - 1) :
    l[i] = "/" /\ l[i + 1] = "/" /\ l[j] = "*" /\ l[j + 1] = "/"

\* C5 (as claimed): a line that opens a block comment and does not close it
\* gives Incomplete with inBlockComment() true; both stay so until a line
\* closes the comment, and after that line inBlockComment() is false and,
\* with no bracket open, the result is Complete.
C5_CommentSpansLines ==
  Validated =>
    /\ (EndsOpen => result = kIncomplete /\ inBlockComment(m_ParenStack))
    /\ ((inBlockComment(pre) /\ CommentEvents = {}) =>
          result = kIncomplete /\ inBlockComment(m_ParenStack))
    /\ ((inBlockComment(pre) /\ \E i \in StepIx : ClosedAt(i)) =>
          /\ ~inBlockComment(m_ParenStack)
          /\ (~HasOpener(m_ParenStack) => result = kComplete))

\* C5 (amended): as claimed up to the closing line; the comment is closed
\* only by a slash token directly after an asterisk token or by the
\* end-of-line recovery on a closing digraph behind a double slash; after
\* the closing line, unless the line opened a new block comment,
\* inBlockComment() is false and, with no bracket open and no mismatching
\* closer met behind the close, the result is Complete.
C5_CommentSpansLinesUnlessMismatch ==
  Validated =>
    /\ (EndsOpen => result = kIncomplete /\ inBlockComment(m_ParenStack))
    /\ ((inBlockComment(pre) /\ CommentEvents = {}) =>
          result = kIncomplete /\ inBlockComment(m_ParenStack))
    /\ \A i \in StepIx :
         /\ steps[i].ev = "close" =>
              (i > 1 /\ steps[i].kind = tok_slash
                 /\ steps[i - 1].kind = tok_asterik)
         /\ (steps[i].ev = "recover" /\ steps[i].fnbc = -1) =>
              ClosedBehindDoubleSlash(line)
    /\ (EndsClosed =>
          /\ ~inBlockComment(m_ParenStack)
          /\ ((m_ParenStack = << >> /\ ~MismatchDetected) =>
                result = kComplete)
          /\ (MismatchDetected => result = kMismatch))

\* A comment opened by an earlier line is closed by this one.
C5_Witness ==
  /\ Validated /\ preInput # << >> /\ inBlockComment(pre)
  /\ EndsClosed /\ ~inBlockComment(m_ParenStack)
  /\ result = kComplete

\* C6: whenever a block comment closes, by the digraph or by the
\* end-of-line recovery, on the line that opened it or on a later one, the
\* stack is the one that existed when the comment opened: what was below
\* the marker is unchanged, the marker and what was pushed above it is gone.
C6_CloseRestoresStack ==
  Validated =>
    \A i \in StepIx :
      ClosedAt(i) =>
        /\ steps[i].after = steps[i].atOpen
        /\ Len(steps[i].before) > Len(steps[i].atOpen)
        /\ SubSeq(steps[i].before, 1, Len(steps[i].atOpen)) = steps[i].atOpen
        /\ steps[i].before[Len(steps[i].atOpen) + 1] = tok_slash

\* A comment opened inside a bracket closes with a bracket pushed inside it.
C6_Witness ==
  /\ Validated
  /\ \E i \in StepIx :
       /\ ClosedAt(i)
       /\ steps[i].atOpen # << >>
       /\ Len(steps[i].before) >= Len(steps[i].atOpen) + 2

\* The cursor behind the literal that opens at position p of the line: just
\* behind the next quote of the same kind, or the end of the line (lines
\* without backslash).
RECURSIVE LiteralEnd(_, _, _)
LiteralEnd(l, p, quote) ==
  IF p > Len(l) THEN Len(l) + 1
  ELSE IF l[p] = quote THEN p + 1
  ELSE LiteralEnd(l, p + 1, quote)

LiteralAt(i) == steps[i].ev = "literal"

\* C7: a literal-opening token makes the validator skip the whole literal,
\* to its closing quote or to the end of the line: the stack is unchanged
\* by the step, nothing is ever pushed for a literal, no later token of
\* the line comes from inside the literal, so a bracket inside it neither
\* changes the stack nor causes Mismatch.
C7_LiteralsAreSkipped ==
  Validated =>
    /\ \A k \in 1..Len(m_ParenStack) :
         m_ParenStack[k] \notin {tok_stringlit, tok_charlit}
    /\ \A i \in StepIx :
         LiteralAt(i) =>
           /\ line[steps[i].at] \in {"\"", "'"}
           /\ steps[i].after = steps[i].before
           /\ steps[i].next =
                LiteralEnd(line, steps[i].at + 1, line[steps[i].at])
           /\ \A j \in StepIx : j > i => steps[j].at >= steps[i].next
           /\ (i < Len(steps) => steps[i + 1].before = steps[i].before)

\* A closed literal with a closing bracket inside, on a Complete line.
C7_Witness ==
  /\ Validated /\ result = kComplete
  /\ \E i \in StepIx :
       /\ LiteralAt(i)
       /\ steps[i].next <= Len(line) + 1
       /\ line[steps[i].next - 1] = line[steps[i].at]
       /\ steps[i].next - 1 > steps[i].at
       /\ \E p \in (steps[i].at + 1)..(steps[i].next - 2) : line[p] = ")"

\* C8: reset() erases all state: whatever was validated before it, the
\* validator agrees, after every call, with a newly constructed one fed the
\* lines since the reset: same result, same inBlockComment(), same buffer.
C8_ResetIsFresh ==
  /\ m_ParenStack = fresh.stack
  /\ m_Input = fresh.input
  /\ result = fresh.Res
  /\ inBlockComment(m_ParenStack) = inBlockComment(fresh.stack)
  /\ (op = "reset" => m_ParenStack = << >> /\ m_Input = << >>)

\* The first line after a reset() that erased a block comment or a
\* Mismatch leaves a bracket open.
C8_Witness ==
  /\ Validated /\ afterReset = "dirty"
  /\ result = kIncomplete /\ m_Input # << >>

\* C9 (as claimed): the line that follows a line ending inside an
\* unterminated literal joins the buffer behind a backslash and an 'n'.
C9_EscapedNewlineJoin ==
  (Validated /\ prevOpenLit /\ preInput # << >>) =>
    m_Input = preInput \o <<"\\", "n">> \o line

\* C10: no assertion fires: every unwindTokens call finds the comment
\* marker on the stack, and the end-of-line recovery yields -1, 0 or 1.
C10_NoAssertionFires ==
  Validated =>
    \A i \in StepIx :
      /\ ~steps[i].asserted
      /\ steps[i].ev # "badcase"
      /\ (steps[i].ev = "recover" => steps[i].fnbc \in {-1, 0, 1})
      /\ (steps[i].ev # "recover" => steps[i].fnbc = 2)
      /\ (ClosedAt(i) => inBlockComment(steps[i].before))

\* The end-of-line recovery unwinds a comment.
C10_Witness ==
  /\ Validated
  /\ \E i \in StepIx : steps[i].ev = "recover" /\ steps[i].fnbc = -1

\* C11 (as claimed): the digraph cursor is reset by any unrelated token.
\* Outside a comment, after a slash token, a token other than an asterisk
\* returns the cursor to expecting a slash, so a comment opens only on an
\* asterisk token directly behind a slash token; inside a comment, after
\* an asterisk token, a token other than a slash or an asterisk returns the
\* cursor to expecting an asterisk, so the comment closes only on a slash
\* token directly behind an asterisk token.
C11_CursorResetByUnrelatedToken ==
  Validated =>
    \A i \in StepIx :
      /\ (i < Len(steps) /\ ~steps[i].multi
            /\ steps[i].cursor = tok_asterik /\ steps[i].kind # tok_asterik) =>
           steps[i + 1].cursor = tok_slash
      /\ OpenedAt(i) => (i > 1 /\ steps[i - 1].kind = tok_slash)
      /\ (i < Len(steps) /\ steps[i].multi /\ steps[i].ev # "close"
            /\ steps[i].cursor = tok_slash
            /\ steps[i].kind \notin {tok_slash, tok_asterik}) =>
           steps[i + 1].cursor = tok_asterik
      /\ steps[i].ev = "close" => (i > 1 /\ steps[i - 1].kind = tok_asterik)

\* C12 (as claimed): inside a block comment every bracket token leaves the
\* stack exactly as it was before the token.
C12_BracketsInertInComment ==
  Validated =>
    \A i \in StepIx :
      (steps[i].multi /\ IsBracket(steps[i].kind)) =>
        steps[i].after = steps[i].before

\* What the claim expects in the buffer: the lines ls[1..n] with one
\* newline between every two consecutive lines.
RECURSIVE JoinLines(_, _)
JoinLines(ls, n) ==
  IF n = 0 THEN << >>
  ELSE IF n = 1 THEN ls[1]
  ELSE JoinLines(ls, n - 1) \o <<"\n">> \o ls[n]

\* C13 (as claimed): after every validate(), whatever it returned, the
\* logical buffer is the lines typed since the reset joined by exactly one
\* newline between consecutive lines, empty lines included (sessions
\* without quoted literals).
C13_BufferIsLinesJoined ==
  (Validated /\ \A k \in 1..Len(typed) : NoQuotes(typed[k])) =>
    m_Input = JoinLines(typed, Len(typed))

\* The characters of the range, both ends included, in the case's line.
InRange(p) == p >= eolCase.startPos /\ p <= eolCase.endPos
EolAt(p) == IF InRange(p) THEN At(eolCase.line, p) ELSE NUL

\* The positions of the second slash of a double slash that lies before
\* the end of the range, and the first of them.
DoubleSlashes ==
  {p \in (eolCase.startPos + 1)..(eolCase.endPos - 1) :
     EolAt(p - 1) = "/" /\ EolAt(p) = "/"}
FirstDoubleSlash == CHOOSE p \in DoubleSlashes : \A q \in DoubleSlashes : p <= q

\* The comment digraphs behind the first double slash, by the position of
\* their first character, and the last of them.
DigraphsBehind ==
  {q \in (FirstDoubleSlash + 1)..(eolCase.endPos - 1) :
     \/ EolAt(q) = "*" /\ EolAt(q + 1) = "/"
     \/ EolAt(q) = "/" /\ EolAt(q + 1) = "*"}
LastDigraph == CHOOSE q \in DigraphsBehind : \A p \in DigraphsBehind : p <= q

\* C14: findNestedBlockComments returns 0 when the range holds no double
\* slash; otherwise the last comment digraph behind the first double slash
\* decides: -1 when it is the closing one, 1 when it is the opening one, 0
\* when there is none.  At the end of a line inside a block comment -1
\* unwinds the marker and everything above it, 0 and 1 leave the stack as
\* it is; no assertion fires.
C14_NestedCommentRecovery ==
  eolCase.done =>
    /\ (DoubleSlashes = {} => eolCase.fnbc = 0)
    /\ ((DoubleSlashes # {} /\ DigraphsBehind = {}) => eolCase.fnbc = 0)
    /\ ((DoubleSlashes # {} /\ DigraphsBehind # {}) =>
          eolCase.fnbc = IF EolAt(LastDigraph) = "*" THEN -1 ELSE 1)
    /\ (eolCase.fnbc = -1 =>
          /\ ~inBlockComment(eolCase.after)
          /\ \E k \in 1..Len(eolCase.stack) :
               /\ eolCase.stack[k] = tok_slash
               /\ eolCase.after = SubSeq(eolCase.stack, 1, k - 1))
    /\ (eolCase.fnbc \in {0, 1} => eolCase.after = eolCase.stack)
    /\ eolCase.fnbc \in {-1, 0, 1}
    /\ ~eolCase.asserted

\* Two comment digraphs behind a double slash, the closing one last: the
\* recovery unwinds the marker and a bracket above it.
C14_Witness ==
  /\ eolCase.done /\ eolCase.fnbc = -1
  /\ DoubleSlashes # {} /\ Cardinality(DigraphsBehind) >= 2
  /\ Len(eolCase.after) + 2 <= Len(eolCase.stack)

\* What is left to do for the call: the characters in front of the cursor
\* while in the token loop, the range of the loop it is in while in
\* findNestedBlockComments.
LeftToScan(r) ==
  CASE r.pc = "loop" -> Len(r.line) + 2 - r.st.curPos
    [] r.pc = "fwd" -> r.endPos - r.startPos
    [] r.pc = "bwd" -> r.endPos - r.startPos
    [] OTHER -> 0

\* Every step of the call moves strictly forward: an iteration of the token
\* loop ends with the cursor further in the line and never behind the
\* terminator by more than one; an iteration of the forward or of the
\* backward loop of findNestedBlockComments shrinks its range, and the
\* backward loop starts on the range the forward loop left.
StrictlyForward ==
  /\ (run.pc = "loop" /\ run'.pc \in {"loop", "done"}) =>
       /\ run'.st.curPos > run.st.curPos
       /\ run'.st.curPos <= Len(run.line) + 2
       /\ Len(run'.st.steps) = Len(run.st.steps) + 1
  /\ (run.pc = "loop" /\ run'.pc = "loop") =>
       /\ LeftToScan(run') < LeftToScan(run)
       /\ run'.st.tokKind # tok_eof
  /\ (run.pc = "loop" /\ run'.pc = "fwd") =>
       /\ run'.startPos = run.st.curPos
       /\ run'.endPos > run'.startPos
       /\ run'.endPos <= Len(run.line) + 2
  /\ (run.pc = "fwd" /\ run'.pc = "fwd") =>
       /\ run'.startPos = run.startPos + 1
       /\ run'.endPos = run.endPos
       /\ LeftToScan(run') < LeftToScan(run)
  /\ (run.pc = "fwd" /\ run'.pc = "bwd") =>
       /\ run'.startPos = run.startPos /\ run'.endPos = run.endPos
       /\ run.startPos < run.endPos
  /\ (run.pc = "bwd" /\ run'.pc = "bwd") =>
       /\ run'.endPos = run.endPos - 1
       /\ run'.startPos = run.startPos
       /\ LeftToScan(run') < LeftToScan(run)
  /\ (run.pc \in {"fwd", "bwd"} /\ run'.pc = "done") =>
       run'.st.tokKind = tok_eof
  /\ run.pc = "done" => run'.pc = "done"

\* C15: every validate() call terminates, for every line and every stack
\* an earlier call can leave: each iteration of the token loop consumes
\* the line strictly forward until the end-of-file token or a mismatch,
\* also on the continue path of a closer inside a comment, and both loops
\* of findNestedBlockComments strictly shrink their range.
C15_ValidateTerminates ==
  /\ [][StrictlyForward]_vars
  /\ <>(run.pc = "done")

\* A call that took the continue path inside a comment and then iterated
\* in both loops of findNestedBlockComments has returned.
C15_Witness ==
  /\ run.pc = "done"
  /\ Len(run.st.steps) >= 2
  /\ \E i \in 1..Len(run.st.steps) : run.st.steps[i].ev = "skip"
  /\ Last(run.st.steps).ev = "recover"
  /\ run.startPos > run.st.steps[Len(run.st.steps) - 1].next
  /\ run.endPos < run.lexEnd
  /\ run.st = ScanLine(run.line, StartScan(run.st.steps[1].before, << >>))

\* The stack holds only opening-bracket markers and the comment marker,
\* and the comment marker at most once.
WellFormedStack(stack) ==
  /\ \A k \in 1..Len(stack) : stack[k] \in Openers \cup {tok_slash}
  /\ Cardinality({k \in 1..Len(stack) : stack[k] = tok_slash}) <= 1

\* C16: in every reachable state, and before and after every token step,
\* the stack holds only opening-bracket markers and the in-block-comment
\* marker, the latter at most once; at the start of every token step the
\* local in-comment flag is true exactly when the stack holds that marker.
C16_StackInvariant ==
  /\ WellFormedStack(m_ParenStack)
  /\ \A i \in StepIx :
       /\ WellFormedStack(steps[i].before)
       /\ WellFormedStack(steps[i].after)
       /\ steps[i].multi <=> inBlockComment(steps[i].before)

\* A second or later line leaves the marker between two openers, and a
\* token step of it started inside the comment.
C16_Witness ==
  /\ Validated /\ preInput # << >>
  /\ inBlockComment(pre)
  /\ \E k \in 2..(Len(m_ParenStack) - 1) :
       /\ m_ParenStack[k] = tok_slash
       /\ m_ParenStack[k - 1] \in Openers /\ m_ParenStack[k + 1] \in Openers
  /\ \E i \in StepIx : steps[i].multi /\ steps[i].ev = "push"

\* The line before the last one, and whether its last token is the
\* character c: c is its last character and no slash stands in front of it
\* (a double slash is no token, and a slash in front of an asterisk would
\* make a digraph of the two).
PrevLine == typed[Len(typed) - 1]
EndsWithToken(l, c) ==
  /\ l # << >> /\ Last(l) = c
  /\ (Len(l) >= 2 => l[Len(l) - 1] \notin {"/", "*", "\"", "'"})

\* The line before ended on a slash token outside a comment and this one
\* starts with an asterisk token; the line before ended on an asterisk
\* token inside a comment and this one starts with a slash token.
SplitOpen ==
  /\ Validated /\ Len(typed) >= 2 /\ ~inBlockComment(pre)
  /\ EndsWithToken(PrevLine, "/")
  /\ steps # << >> /\ steps[1].kind = tok_asterik
SplitClose ==
  /\ Validated /\ Len(typed) >= 2 /\ inBlockComment(pre)
  /\ EndsWithToken(PrevLine, "*")
  /\ steps # << >> /\ steps[1].kind = tok_slash

\* C17: a partial comment digraph never survives a line boundary.  The
\* digraph cursor of the first token step of every call is the one the
\* stack gives (asterisk inside a comment, slash outside), so the first
\* token of a line never opens or closes a comment by a digraph: a line
\* ending on a slash token followed by a line starting with an asterisk
\* token opens no comment, and inside a comment a line ending on an
\* asterisk token followed by a line starting with a slash token leaves the
\* comment open.
C17_NoDigraphAcrossLines ==
  (Validated /\ steps # << >>) =>
    /\ steps[1].cursor = IF inBlockComment(pre) THEN tok_asterik ELSE tok_slash
    /\ steps[1].ev \notin {"open", "close"}
    /\ (SplitOpen => ~inBlockComment(steps[1].after)
                       /\ steps[1].after = pre)
    /\ (SplitClose => inBlockComment(steps[1].after)
                        /\ steps[1].after = pre)

\* Inside a comment that an earlier line opened, a line that is a lone
\* asterisk is followed by a line that is a lone slash: the comment stays
\* open.
C17_Witness ==
  /\ SplitClose
  /\ Len(typed) >= 3 /\ PrevLine = <<"*">> /\ line = <<"/">>
  /\ inBlockComment(m_ParenStack) /\ result = kIncomplete

\* Step i is an asterisk token met inside the comment (not the one that
\* entered it).
AsteriskInComment(i) == steps[i].kind = tok_asterik /\ steps[i].multi

\* C18: the asterisk that confirms a comment opening is not reused as the
\* first character of a closing digraph: a slash token directly behind the
\* opening asterisk leaves the stack, with the marker, as it is; the
\* comment is closed by a slash token exactly when the token before it is
\* an asterisk token met inside the comment, be it the first or a later one
\* of a run of asterisks.
C18_OpeningAsteriskNotReused ==
  Validated =>
    \A i \in StepIx :
      /\ (OpenedAt(i) /\ i < Len(steps) /\ steps[i + 1].kind = tok_slash) =>
           /\ steps[i + 1].ev # "close"
           /\ steps[i + 1].after = steps[i + 1].before
           /\ inBlockComment(steps[i + 1].after)
      /\ steps[i].ev = "close" => (i > 1 /\ AsteriskInComment(i - 1))
      /\ (steps[i].kind = tok_slash /\ i > 1 /\ AsteriskInComment(i - 1)) =>
           (steps[i].ev = "close" /\ ~inBlockComment(steps[i].after))

\* On one line: a slash directly behind the opening asterisk, which does
\* not close, then two asterisks and a slash, which closes.
C18_Witness ==
  /\ Validated
  /\ \E i \in StepIx : \E j \in StepIx :
       /\ OpenedAt(i) /\ i < Len(steps)
       /\ steps[i + 1].kind = tok_slash /\ steps[i + 1].ev # "close"
       /\ j > i + 3 /\ steps[j].ev = "close"
       /\ AsteriskInComment(j - 1) /\ AsteriskInComment(j - 2)

\* The pushes whose write of line 59 has run, and the slot a first-in
\* first-out cache of CacheSize slots gives the k-th push.
Pushes == 1..Len(reserved)
Written == {k \in Pushes : reserved[k].stored}
FifoSlot(k) == (k - 1) % CacheSize
\* The last written push that a first-in first-out cache puts in slot s.
LatestIn(s) ==
  CHOOSE k \in Written : FifoSlot(k) = s /\ \A j \in Written : FifoSlot(j) = s => j <= k
\* The addresses the cache holds: what its slots hold, empty slots apart.
Held == {lines[s] : s \in 0..(CacheSize - 1)} \ {NullPtr}
Smaller(a, b) == IF a < b THEN a ELSE b

\* C19: used from one thread the cache is first-in first-out over its 8
\* slots: the k-th push writes slot (k - 1) mod 8, every slot holds the
\* address of the last push written to it, so an address stays in the cache
\* through the 7 pushes behind its own and the 8th overwrites it; the cache
\* holds exactly the last min(n, 8) pushed addresses; mostRecent stays
\* within 0..7.
C19_CacheIsFifo ==
  /\ mostRecent \in 0..(CacheSize - 1)
  /\ mostRecent = Len(reserved) % CacheSize
  /\ \A k \in Pushes : reserved[k].slot = FifoSlot(k)
  /\ \A k \in Pushes : reserved[k].stored \/ (k = Len(reserved) /\ thr["t1"].pc = "store")
  /\ \A s \in 0..(CacheSize - 1) :
       IF \E k \in Written : FifoSlot(k) = s
       THEN lines[s] = reserved[LatestIn(s)].addr
       ELSE lines[s] = NullPtr
  /\ \A k \in Written :
       /\ Cardinality(Written) - k < CacheSize => contains(reserved[k].addr)
       /\ Cardinality(Written) - k >= CacheSize =>
            lines[FifoSlot(k)] = reserved[LatestIn(FifoSlot(k))].addr
  /\ Held = {reserved[k].addr :
               k \in {j \in Written : Cardinality(Written) - j < CacheSize}}
  /\ Cardinality(Held) = Smaller(Cardinality(Written), CacheSize)

\* The ninth push has overwritten the first address, the thread asked about
\* that address again, missed, and pushed it as the tenth.
C19_Witness ==
  /\ thr["t1"].pc = "idle" /\ thr["t1"].ret = "true"
  /\ Len(reserved) = CacheSize + 2
  /\ reserved[CacheSize + 2].stored
  /\ reserved[CacheSize + 2].addr = reserved[1].addr
  /\ lines[FifoSlot(1)] = reserved[CacheSize + 1].addr
  /\ lines[FifoSlot(2)] = reserved[1].addr

\* No call of push is under way.
Quiescent == \A t \in Threads : thr[t].pc = "idle"

\* Push k is lost early: its write has run, fewer than CacheSize pushes
\* have reserved a slot behind it, and its slot holds something else.
LostEarly(k) ==
  /\ k \in Written
  /\ Len(reserved) - k < CacheSize
  /\ lines[reserved[k].slot] # reserved[k].addr

\* C20: under every interleaving of concurrent pushes the compare-exchange
\* gives consecutive successful pushes consecutive slots modulo 8, so any
\* 8 consecutive reservations have 8 different slots: when no more than 8
\* pushes of distinct addresses are made, no two write the same slot and
\* all their addresses are in the cache once every push has finished; an
\* address is lost early only to the write of a push that reserved the slot
\* 8 or more reservations before it.
C20_ConcurrentPush ==
  /\ mostRecent = Len(reserved) % CacheSize
  /\ \A k \in Pushes :
       /\ reserved[k].slot \in 0..(CacheSize - 1)
       /\ k = 1 => reserved[k].slot = 0
       /\ k > 1 => reserved[k].slot = (reserved[k - 1].slot + 1) % CacheSize
  /\ \A j \in Pushes : \A k \in Pushes :
       /\ (j < k /\ k - j < CacheSize) => reserved[j].slot # reserved[k].slot
       /\ j # k => reserved[j].addr # reserved[k].addr
  /\ \A t \in Threads :
       thr[t].pc = "store" =>
         /\ thr[t].idx \in Pushes
         /\ reserved[thr[t].idx].slot = thr[t].acquiredVal
         /\ reserved[thr[t].idx].addr = thr[t].P
         /\ ~reserved[thr[t].idx].stored
  /\ (Quiescent /\ Len(reserved) <= CacheSize) =>
       \A k \in Pushes : reserved[k].stored /\ contains(reserved[k].addr)
  /\ \A k \in Pushes :
       LostEarly(k) =>
         \E b \in Written :
           /\ b + CacheSize <= k
           /\ reserved[b].slot = reserved[k].slot
           /\ lines[reserved[k].slot] = reserved[b].addr

\* A thread that reserved a slot wrote it after 8 later pushes reserved
\* theirs: the address of the last of them is lost although nothing was
\* pushed behind it.
C20_Witness ==
  /\ Quiescent
  /\ Len(reserved) = CacheSize + 1
  /\ LostEarly(CacheSize + 1)
  /\ lines[reserved[1].slot] = reserved[1].addr

=============================================================================
